---- MODULE Spec2Model ----
(***************************************************************************)
(* Model of the plugin runtime of Infoscava (src/main.py): PluginManager   *)
(* (registry, manifest/artifact files, module cache, config file, bounded  *)
(* history log) and the host's signal handlers in InfoscavaMainWindow.     *)
(*                                                                         *)
(* Handlers run on the GUI thread, one at a time: every host operation is  *)
(* one action.  A handler is written as a function from a machine state    *)
(* record s to the machine state it leaves; an action copies the fields of *)
(* the result into the variables.                                          *)
(*                                                                         *)
(* Abstractions: a manifest is one of a fixed set of manifest kinds, each  *)
(* standing for what json.load, .get('python_code'), base64 decoding, the  *)
(* import and getattr do with it; a history entry is its message without   *)
(* the wall-clock timestamp prefix; md5 of a plugin name is injective, so  *)
(* sys.modules is indexed by plugin name.                                  *)
(***************************************************************************)
EXTENDS Integers, Sequences, FiniteSets, TLC

VARIABLES
    loaded_plugins,              \* PluginManager.loaded_plugins (ordered dict), a sequence of records
    manifests,                   \* <name>.infoscava in PLUGIN_DIRECTORY: [c: manifest kind or "none", t: mtime]
    artifacts,                   \* <name>.py in PLUGIN_DIRECTORY: [c: code or "none", t: mtime]
                                 \* (mtimes are relative to the last write of <name>.py, which is time 0)
    sys_modules,                 \* sys.modules["infoscava_plugin_<md5(name)>"]: module id, 0 = no entry
    config,                      \* content of plugins_config.json (JSON array of names)
    history_entries,             \* PluginManager.history_entries
    max_plugin_history_entries,  \* PluginManager.max_plugin_history_entries
    history_file,                \* plugin_history.json: [kind: "absent" | "list" | "malformed", data]
    static_plugin_tabs,          \* InfoscavaMainWindow.static_plugin_tabs (its key set)
    last                         \* the operation that ended in this state: what it returned, emitted and invoked

vars == <<loaded_plugins, manifests, artifacts, sys_modules, config, history_entries,
          max_plugin_history_entries, history_file, static_plugin_tabs, last>>

(***************************************************************************)
(* Bounds and input sets.                                                  *)
(***************************************************************************)
MaxCap == 1            \* history capacities 1..MaxCap of the plugin specifications
MaxHistCap == 3        \* history capacities 1..MaxHistCap of the history specifications
MaxFileLen == 3        \* longest externally written history file
MaxAppends == 6        \* longest run of appends in SpecAppend
MaxLogLen == 4         \* appends of SpecCapacity stop at a log of this length
MaxStarts == 4         \* analyses started in SpecAnalysis

Names == {"a", "b"}    \* plugin names (file stems)

\* The .infoscava files the user has to offer to loadNewManifest: <<name, kind>>.
SourceFiles ==
    ({"a"} \X {"badjson", "nocode", "undecodable", "nofn", "imperr", "noentry",
               "an1", "anraise", "static"})
    \cup ({"b"} \X {"an1", "anraise"})

\* The manifest kinds.
ManifestIds == {"badjson", "nocode", "undecodable", "nofn", "imperr", "noentry",
                "an1", "anraise", "static"}

\* Manifests of analysis plugins whose entry point returns a value of one of these
\* shapes (the manifest kind is named after the value):
\*   dict_html_str      {"infoscava_output_type": "html", "content": "<p>..</p>"}
\*   dict_html_blank    {"infoscava_output_type": "html", "content": "  "}
\*   dict_html_int      {"infoscava_output_type": "html", "content": 5}
\*   dict_html_nocontent {"infoscava_output_type": "html"}
\*   dict_other         {"k": 1}
\*   list [1, "x"],  tuple (1, "x"),  int 7,  none None
ReturnKinds == {"dict_html_str", "dict_html_blank", "dict_html_int", "dict_html_nocontent",
                "dict_other", "list", "tuple", "int", "none"}

\* json.load succeeds on the manifest.
Json(m) == m # "badjson"

\* What base64-decoding plugin_data.get('python_code') gives: "none" when the key is
\* missing, "undecodable" when b64decode/utf-8 decoding raises, else the source.
PythonCode(m) ==
    CASE m = "nocode" -> "none"
      [] m = "undecodable" -> "undecodable"
      [] m = "imperr" -> "ImportError"
      [] m = "noentry" -> "NoEntry"
      [] m \in {"an1", "nofn"} -> "Ok1"
      [] m = "anraise" -> "Raises"
      [] m = "static" -> "Html"
      [] m \in ReturnKinds -> m
      [] OTHER -> "none"

\* plugin_data.get('function_name') is truthy.
FunctionName(m) == m # "nofn"

\* plugin_data.get('type', 'analysis_plugin').
PluginType(m) == IF m = "static" THEN "static_html_plugin" ELSE "analysis_plugin"

\* exec_module on the source succeeds.
Imports(code) == code \notin {"none", "ImportError"}

\* getattr(module, function_name) is a callable.
HasEntry(code) == code \in {"Ok1", "Raises", "Html"} \cup ReturnKinds

\* Calling the entry point raises.
CallRaises(code) == code = "Raises"

\* What the entry point returns when it does not raise.
CallValue(code) ==
    CASE code = "Ok1" -> "v1"
      [] code = "Html" -> "<html>"
      [] code \in ReturnKinds -> code
      [] OTHER -> "?"

\* isinstance(value, str); "error_msg" is the message execute_analysis_plugins
\* stores for a plugin that raised.
IsStr(v) == v \in {"v1", "<html>", "error_msg"}

\* isinstance(value, dict).
IsDict(v) == v \in {"dict_html_str", "dict_html_blank", "dict_html_int",
                    "dict_html_nocontent", "dict_other"}

\* isinstance(value, list).
IsList(v) == v = "list"

\* value.get("infoscava_output_type") of a dict.
OutputType(v) == IF v = "dict_other" THEN "None" ELSE "html"

\* value.get("content") of a dict: a non-blank str, a blank str, an int, or None
\* when the key is missing.
Content(v) ==
    CASE v = "dict_html_str" -> "str"
      [] v = "dict_html_blank" -> "blank"
      [] v = "dict_html_int" -> "int"
      [] OTHER -> "None"

NoFile == [c |-> "none", t |-> 0]

\* Faults of the environment during one operation: the config write raises (in
\* open, or, cfg_cut, in json.dump after open(.., 'w') has truncated the file), the
\* artifact write raises, os.remove of the manifest or of the artifact raises.
Faults == [cfg_ok : BOOLEAN, cfg_cut : BOOLEAN, wr_ok : BOOLEAN, rm : {"ok", "json", "py"}]
NoFault == [cfg_ok |-> TRUE, cfg_cut |-> FALSE, wr_ok |-> TRUE, rm |-> "ok"]

\* plugins_config.json after a write that raised once the file was open: empty or
\* cut short, not the JSON array it held (the element is not a plugin name).
Truncated == <<"#truncated">>

(***************************************************************************)
(* Sequence helpers.                                                       *)
(***************************************************************************)
Range(q) == {q[i] : i \in 1..Len(q)}

Keys(lp) == {lp[i].name : i \in 1..Len(lp)}

IndexOf(lp, name) == CHOOSE i \in 1..Len(lp) : lp[i].name = name

Get(lp, name) == lp[IndexOf(lp, name)]

\* list[-n:] of a Python list: the last n elements, and the whole list when n = 0,
\* since -0 == 0.
SliceLast(q, n) ==
    IF n = 0 \/ n >= Len(q) THEN q
    ELSE SubSeq(q, Len(q) - n + 1, Len(q))

\* d[key] = value on a Python dict: an existing key keeps its position.
\* Mutant of DictSet: an existing key is removed and the record added at the end.
DictSet_move_to_end(lp, rec) ==
    Append(SelectSeq(lp, LAMBDA r : r.name # rec.name), rec)

DictSet(lp, rec) ==
    IF rec.name \in Keys(lp)
    THEN [lp EXCEPT ![IndexOf(lp, rec.name)] = rec]
    ELSE Append(lp, rec)

\* open(plugin_py_path, 'w') and write of the decoded payload.  The manifest it was
\* decoded from is from now on not newer than the generated source.
write_py(s, name, m) ==
    [s EXCEPT !.art[name] = [c |-> PythonCode(m), t |-> 0], !.man[name].t = 0,
              !.wrote = s.wrote \cup {name}]

\* del d[key].
DictDel(lp, name) == SelectSeq(lp, LAMBDA r : r.name # name)

\* The permutations of a finite set, as sequences: os.listdir gives some order.
Orders(S) == {q \in [1..Cardinality(S) -> S] : Range(q) = S}

(***************************************************************************)
(* HistoryLog.                                                             *)
(***************************************************************************)
\* The trim of _log and update_settings: keep the newest entries.
\* Mutant of Trim: the slice keeps one entry too many.
Trim_one_more(h, cap) == IF Len(h) > cap THEN SliceLast(h, cap + 1) ELSE h

\* Mutant of Trim: the slice keeps the oldest entries, history[:max].
Trim_keep_oldest(h, cap) == IF Len(h) > cap THEN SubSeq(h, 1, cap) ELSE h

Trim(h, cap) == IF Len(h) > cap THEN SliceLast(h, cap) ELSE h

\* PluginManager._log on the list.
log(h, cap, msg) == Trim(Append(h, msg), cap)

Log(s, msg) == [s EXCEPT !.hist = log(s.hist, s.cap, msg),
                        !.logged = s.logged \cup {msg}]

\* PluginManager.update_settings.
update_settings(s, n) == [s EXCEPT !.cap = n, !.hist = Trim(s.hist, n)]

\* PluginManager._load_history.
load_history(s) ==
    CASE s.hfile.kind = "list" ->
            Log([s EXCEPT !.hist = s.hfile.data], <<"history_loaded", "">>)
      [] s.hfile.kind = "malformed" ->
            [Log(s, <<"history_json_error", "">>) EXCEPT !.hist = <<>>]
      [] OTHER -> Log(s, <<"no_history_file", "">>)

\* PluginManager._save_history: the file gets the list as it is before the
\* "saved" entry is appended.
\* Mutant of save_history: the entry is appended first and the file gets it too.
save_history_after_log(s) ==
    LET s1 == Log(s, <<"history_saved", "">>)
    IN  [s1 EXCEPT !.hfile = [kind |-> "list", data |-> s1.hist]]

save_history(s) ==
    Log([s EXCEPT !.hfile = [kind |-> "list", data |-> s.hist]], <<"history_saved", "">>)

(***************************************************************************)
(* The host's signal handlers (InfoscavaMainWindow).                       *)
(***************************************************************************)
Call(s, kind, name) == [s EXCEPT !.calls = Append(s.calls, <<kind, name>>)]

\* InfoscavaMainWindow._add_static_plugin_tab_if_applicable, slot of plugin_loaded_signal.
add_static_plugin_tab_if_applicable(s, name) ==
    IF name \in s.tabs THEN s
    ELSE IF name \in Keys(s.lp) /\ Get(s.lp, name).type = "static_html_plugin"
    THEN LET func == Get(s.lp, name).function
             s1 == Call(s, "static", name)
         IN  IF CallRaises(func) THEN Log(s1, <<"static_tab_error", name>>)
             ELSE IF IsStr(CallValue(func))
             THEN Log([s1 EXCEPT !.tabs = s1.tabs \cup {name}], <<"static_tab_created", name>>)
             ELSE Log(s1, <<"static_not_string", name>>)
    ELSE s

\* InfoscavaMainWindow._remove_plugin_tab, slot of plugin_deleted_signal (the
\* static-tab branch; per-file analysis tabs are not part of this model).
remove_plugin_tab(s, name) == [s EXCEPT !.tabs = s.tabs \ {name}]

\* Signal.emit: the connected slots run synchronously, before emit returns.  The
\* main window connects its slots after PluginManager.__init__ has returned.
\* at records whether the name was in the registry when the signal was delivered.
Emit(s, sig, name) ==
    LET s1 == [s EXCEPT !.ev = Append(s.ev, <<sig, name>>),
                        !.at = Append(s.at, name \in Keys(s.lp))]
    IN  IF ~s.conn THEN s1
        ELSE CASE sig = "Loaded" -> add_static_plugin_tab_if_applicable(s1, name)
               [] sig = "Deleted" -> remove_plugin_tab(s1, name)
               [] OTHER -> s1

(***************************************************************************)
(* PluginManager.                                                          *)
(***************************************************************************)
\* Records that an I/O step of the running operation happened or raised.
Io(s, what) == [s EXCEPT !.io = s.io \cup {what}]

\* PluginManager._save_plugin_config.
\* Mutant of save_plugin_config: the except clause does not log.
save_plugin_config_silent(s, f) ==
    IF f.cfg_ok
    THEN Log(Io([s EXCEPT !.cfg = [i \in 1..Len(s.lp) |-> s.lp[i].name]], "cfg_written"),
             <<"config_saved", "">>)
    ELSE Io(s, "cfg_failed")

save_plugin_config(s, f) ==
    IF f.cfg_ok
    THEN Log(Io([s EXCEPT !.cfg = [i \in 1..Len(s.lp) |-> s.lp[i].name]], "cfg_written"),
             <<"config_saved", "">>)
    ELSE IF f.cfg_cut
    THEN Log(Io(Io([s EXCEPT !.cfg = Truncated], "cfg_failed"), "cfg_cut"),
             <<"config_save_error", "">>)
    ELSE Log(Io(s, "cfg_failed"), <<"config_save_error", "">>)

\* The modules of plugin name that something still refers to: the registry record
\* and the module cache.  A module object is identified by the plugin name it was
\* created for and a number.
LiveModules(s, name) ==
    {s.mods[name]} \cup {s.lp[i].module : i \in {j \in 1..Len(s.lp) : s.lp[j].name = name}}

\* importlib.util.module_from_spec: a new module object, distinct from every live
\* one and from the one just dropped from sys.modules.
FreshModule(s, name, old) ==
    CHOOSE i \in 1..3 : i \notin LiveModules(s, name) \cup {old}
                        /\ \A j \in 1..(i - 1) : j \in LiveModules(s, name) \cup {old}

\* self.loaded_plugins[name] = {...}.
\* Mutant of Register: the record is built and never stored.
Register_not_stored(s, rec) == s

Register(s, rec) == [s EXCEPT !.lp = DictSet(s.lp, rec)]

\* PluginManager._perform_dynamic_import_and_register; .ok is its return value.
\* (spec_from_file_location never gives None for a .py path.)
perform_dynamic_import_and_register(s, name, m) ==
    IF ~FunctionName(m)
    THEN [ok |-> FALSE, s |-> Emit(Log(s, <<"skip_missing_fn", name>>), "Failed", name)]
    ELSE
    LET old == s.mods[name]
        s1 == IF old # 0
              THEN [Log(s, <<"removing_module", name>>) EXCEPT !.mods[name] = 0]
              ELSE s
        module == FreshModule(s1, name, old)
        s2 == [s1 EXCEPT !.mods[name] = module,
                         !.made = s1.made \cup {<<name, module>>}]
        code == s2.art[name].c
    IN  IF ~Imports(code)
        THEN [ok |-> FALSE, s |-> Emit(Log(s2, <<"import_error", name>>), "Failed", name)]
        ELSE IF ~HasEntry(code)
        THEN [ok |-> FALSE, s |-> Emit(Log(s2, <<"entry_missing", name>>), "Failed", name)]
        ELSE [ok |-> TRUE,
              s |-> Emit(Log(Register(s2, [name |-> name, module |-> module,
                                           function |-> code, type |-> PluginType(m)]),
                             <<"loaded", name>>),
                         "Loaded", name)]

\* Mutant of needs_write: the scan rewrites every artifact (force).
needs_write_always(s, name) == TRUE

\* Mutant of needs_write: the modification times are not compared.
needs_write_missing_only(s, name) == s.art[name].c = "none"

\* Mutant of needs_write: >= instead of >.
needs_write_not_older(s, name) ==
    s.art[name].c = "none" \/ s.man[name].t >= s.art[name].t

\* write_py_file of the directory scan: the .py does not exist, or getmtime of the
\* .infoscava is greater than getmtime of the .py.
needs_write(s, name) ==
    s.art[name].c = "none" \/ s.man[name].t > s.art[name].t

\* The body of the directory loop of _load_plugins_from_disk_and_config for one
\* .infoscava file.
scan_one(s, name, f) ==
    LET m == s.man[name].c IN
    IF ~Json(m) THEN Log(s, <<"scan_json_error", name>>)
    ELSE IF PythonCode(m) = "none" THEN Log(s, <<"scan_missing_code", name>>)
    ELSE
    LET missing == s.art[name].c = "none"
        write_py_file == needs_write(s, name)
        s1 == IF missing THEN Log(s, <<"py_not_found", name>>)
              ELSE IF write_py_file THEN Log(s, <<"json_newer", name>>)
              ELSE s
    IN  IF write_py_file /\ PythonCode(m) = "undecodable"
        THEN Log(s1, <<"scan_write_error", name>>)
        ELSE IF write_py_file /\ ~f.wr_ok
        THEN Log(Io(s1, "wr_failed"), <<"scan_write_error", name>>)
        ELSE
        LET s2 == IF write_py_file
                  THEN Log(write_py(s1, name, m),
                           <<"py_updated", name>>)
                  ELSE s1
            r == perform_dynamic_import_and_register(s2, name, m)
        IN  IF r.ok THEN r.s ELSE Log(r.s, <<"scan_load_failed", name>>)

RECURSIVE scan_loop(_, _, _)
scan_loop(s, listing, f) ==
    IF listing = <<>> THEN s
    ELSE scan_loop(scan_one(s, Head(listing), f), Tail(listing), f)

\* PluginManager._load_plugins_from_disk_and_config; listing is what os.listdir
\* gives for the .infoscava files.
\* Mutant of load_plugins_from_disk_and_config: the registry is not reset.
load_plugins_from_disk_and_config_keep(s, listing, f) ==
    LET s0 == Log(s, <<"scanning", "">>)
        s1 == scan_loop(s0, listing, f)
        s2 == save_plugin_config(s1, f)
    IN  Log(Emit(s2, "Reloaded", ""), <<"scan_finished", "">>)

\* Mutant of load_plugins_from_disk_and_config: only the manifests the config file
\* lists are loaded.
load_plugins_from_disk_and_config_listed(s, listing, f) ==
    LET s0 == [Log(s, <<"scanning", "">>) EXCEPT !.lp = <<>>]
        s1 == scan_loop(s0, SelectSeq(listing, LAMBDA n : n \in Range(s.cfg)), f)
        s2 == save_plugin_config(s1, f)
    IN  Log(Emit(s2, "Reloaded", ""), <<"scan_finished", "">>)

load_plugins_from_disk_and_config(s, listing, f) ==
    LET s0 == [Log(s, <<"scanning", "">>) EXCEPT !.lp = <<>>]
        s1 == scan_loop(s0, listing, f)
        s2 == save_plugin_config(s1, f)
    IN  Log(Emit(s2, "Reloaded", ""), <<"scan_finished", "">>)

\* Mutant of notify_reloaded: the re-analysis is not requested.
notify_reloaded_only(s) == Emit(s, "Reloaded", "")

\* Mutant of notify_reloaded: the two signals are emitted in the other order.
notify_reanalyze_first(s) == Emit(Emit(s, "ReanalyzeRequested", ""), "Reloaded", "")

\* plugin_reloaded_signal.emit() followed by reanalyze_requested.emit(), the end of
\* load_new_plugin_file, reload_plugin and reload_all_plugins.
notify_reloaded(s) == Emit(Emit(s, "Reloaded", ""), "ReanalyzeRequested", "")

\* The orders os.listdir can give the manifests of the plugin directory in.
Listings(s) == Orders({n \in Names : s.man[n].c # "none"})

\* The except-handlers' cleanup in load_new_plugin_file: os.remove of the copied
\* manifest and of the artifact, where they exist.
RemoveBoth(s, name) == [s EXCEPT !.man[name] = NoFile, !.art[name] = NoFile]

\* PluginManager.load_new_plugin_file for the source file <name>.infoscava with
\* content m.  src: "missing" (no such file), "same" (the file chosen is the one in
\* the plugin directory itself, where the dialog opens) or "file" (any other file);
\* reply: the answer to the overwrite question.
load_new_plugin_file(s, name, m, src, reply, f) ==
    IF src = "missing"
    THEN [ok |-> FALSE, s |-> Log(s, <<"source_not_found", name>>)]
    ELSE IF s.man[name].c # "none" /\ reply = "No"
    THEN [ok |-> FALSE, s |-> Log(s, <<"overwrite_declined", name>>)]
    ELSE IF src = "same"
    THEN \* shutil.copy raises SameFileError: the generic handler
         [ok |-> FALSE, s |-> RemoveBoth(Log(s, <<"load_unexpected_error", name>>), name)]
    ELSE
    LET s1 == Log([s EXCEPT !.man[name] = [c |-> m, t |-> 0]], <<"copied", name>>)
    IN  IF ~Json(m)
        THEN [ok |-> FALSE,
              s |-> Log([Log(s1, <<"load_json_error", name>>) EXCEPT !.man[name] = NoFile],
                        <<"removed_malformed", name>>)]
        ELSE IF PythonCode(m) = "none"
        THEN [ok |-> FALSE,
              s |-> Log([Log(s1, <<"load_missing_code", name>>) EXCEPT !.man[name] = NoFile],
                        <<"removed_malformed", name>>)]
        ELSE IF PythonCode(m) = "undecodable"
        THEN [ok |-> FALSE, s |-> RemoveBoth(Log(s1, <<"load_unexpected_error", name>>), name)]
        ELSE IF ~f.wr_ok
        THEN [ok |-> FALSE,
              s |-> RemoveBoth(Log(Io(s1, "wr_failed"), <<"load_unexpected_error", name>>), name)]
        ELSE
        LET s2 == Log(write_py(s1, name, m),
                      <<"py_saved", name>>)
            r == perform_dynamic_import_and_register(s2, name, m)
        IN  IF r.ok
            THEN [ok |-> TRUE,
                  s |-> notify_reloaded(save_plugin_config(r.s, f))]
            ELSE [ok |-> FALSE,
                  s |-> Log([Log([Log(r.s, <<"load_failed", name>>) EXCEPT !.man[name] = NoFile],
                                 <<"removed_json", name>>) EXCEPT !.art[name] = NoFile],
                            <<"removed_py", name>>)]

\* PluginManager.get_plugins_metadata (the names it lists, in order).
get_plugins_metadata(s) == [i \in 1..Len(s.lp) |-> s.lp[i].name]

\* One iteration of the loop of execute_analysis_plugins: the try/except around
\* the call of one record's entry point.
execute_one(s, rec) ==
    IF rec.type # "analysis_plugin" THEN s
    ELSE LET s1 == Call(Log(s, <<"executing", rec.name>>), "analysis", rec.name)
         IN  IF CallRaises(rec.function)
             THEN [Log(s1, <<"execute_error", rec.name>>) EXCEPT
                      !.results = Append(s1.results, <<rec.name, "error", "error_msg">>)]
             ELSE Log([s1 EXCEPT !.results =
                          Append(s1.results, <<rec.name, "value", CallValue(rec.function)>>)],
                      <<"executed", rec.name>>)

\* Mutant of pass_step: the record is looked up in the registry when its turn
\* comes, and skipped when it is no longer there.
pass_step_live(s, todo) ==
    IF Head(todo).name \in Keys(s.lp)
    THEN execute_one(s, Get(s.lp, Head(todo).name))
    ELSE s

\* One turn of the loop of execute_analysis_plugins: the next (name, data) pair of
\* the copy list(self.loaded_plugins.items()) made when the pass started.
pass_step(s, todo) == execute_one(s, Head(todo))

\* Mutant of execute_loop: the try is around the loop, the first raise ends the pass.
RECURSIVE execute_loop_abort(_, _)
execute_loop_abort(s, snapshot) ==
    IF snapshot = <<>> THEN s
    ELSE IF Head(snapshot).type = "analysis_plugin" /\ CallRaises(Head(snapshot).function)
    THEN execute_one(s, Head(snapshot))
    ELSE execute_loop_abort(execute_one(s, Head(snapshot)), Tail(snapshot))

RECURSIVE execute_loop(_, _)
execute_loop(s, snapshot) ==
    IF snapshot = <<>> THEN s
    ELSE execute_loop(execute_one(s, Head(snapshot)), Tail(snapshot))

\* PluginManager.execute_analysis_plugins: iterates list(self.loaded_plugins.items()).
execute_analysis_plugins(s) == execute_loop(s, s.lp)

\* Mutant of classify: the dict/list test comes before the test of the output type.
classify_json_first(v) ==
    IF IsDict(v) \/ IsList(v) THEN "json"
    ELSE "text"

\* The display branch of _on_analysis_finished for one result: "html", "html_empty"
\* (a notice instead of blank HTML), "html_error" (content is not a str), "json"
\* (JsonTableViewer) or "text" (str(result) in a QTextEdit).
classify(v) ==
    IF IsDict(v) /\ OutputType(v) = "html"
    THEN CASE Content(v) = "str" -> "html"
           [] Content(v) = "blank" -> "html_empty"
           [] OTHER -> "html_error"
    ELSE IF IsDict(v) \/ IsList(v) THEN "json"
    ELSE "text"

\* The loop of _on_analysis_finished over plugin_raw_results.items(): one tab for
\* every result.
RECURSIVE render_loop(_, _)
render_loop(s, results) ==
    IF results = <<>> THEN s
    ELSE render_loop([s EXCEPT !.shown = Append(s.shown, <<Head(results)[1],
                                                          classify(Head(results)[3])>>)],
                     Tail(results))

\* InfoscavaMainWindow._on_analysis_finished, its plugin part: the old analysis tabs
\* are cleared, the plugins run, every result is shown.
on_analysis_finished(s) ==
    LET s1 == execute_analysis_plugins([s EXCEPT !.shown = <<>>])
    IN  render_loop(s1, s1.results)

\* Mutant of remove_py: the generated source is left behind.
remove_py_skipped(s, name) == s

\* os.remove(plugin_py_path) in delete_plugin.
remove_py(s, name) == [s EXCEPT !.art[name] = NoFile]

\* The try-block of delete_plugin for a name that is in the registry.
delete_known(s, name, f) ==
    LET s1 == IF s.mods[name] # 0
              THEN Log([s EXCEPT !.mods[name] = 0], <<"unloaded_module", name>>)
              ELSE s
        jsonFails == s1.man[name].c # "none" /\ f.rm = "json"
        s2 == IF s1.man[name].c # "none" /\ ~jsonFails
              THEN Log([s1 EXCEPT !.man[name] = NoFile], <<"deleted_json", name>>)
              ELSE s1
        pyFails == s2.art[name].c # "none" /\ f.rm = "py"
        s3 == IF s2.art[name].c # "none" /\ ~pyFails
              THEN Log(remove_py(s2, name), <<"deleted_py", name>>)
              ELSE s2
    IN  IF jsonFails THEN [ok |-> FALSE, s |-> Log(Io(s1, "rm_failed"), <<"delete_error", name>>)]
        ELSE IF pyFails THEN [ok |-> FALSE, s |-> Log(Io(s2, "rm_failed"), <<"delete_error", name>>)]
        ELSE [ok |-> TRUE,
              s |-> Emit(Emit(Log(save_plugin_config([s3 EXCEPT !.lp = DictDel(s3.lp, name)], f),
                                  <<"deleted", name>>),
                              "Deleted", name),
                         "ReanalyzeRequested", "")]

\* PluginManager.delete_plugin.
\* Mutant of delete_plugin: no check that the name is in the registry.
delete_plugin_unguarded(s, name, f) == delete_known(s, name, f)

delete_plugin(s, name, f) ==
    IF name \notin Keys(s.lp)
    THEN [ok |-> FALSE, s |-> Log(s, <<"delete_not_found", name>>)]
    ELSE delete_known(s, name, f)

\* Mutant of drop_failed_reload: the record is deleted and the config not rewritten.
drop_failed_reload_unsaved(s, name, f) ==
    IF name \in Keys(s.lp) THEN [s EXCEPT !.lp = DictDel(s.lp, name)] ELSE s

\* reload_plugin after a failed re-import: the record is deleted and the config saved.
drop_failed_reload(s, name, f) ==
    IF name \in Keys(s.lp)
    THEN save_plugin_config([s EXCEPT !.lp = DictDel(s.lp, name)], f)
    ELSE s

\* PluginManager.reload_plugin.  json_path and plugin_py_path of a record are the
\* paths of <name>.infoscava and <name>.py.
reload_plugin(s, name, f) ==
    IF name \notin Keys(s.lp)
    THEN [ok |-> FALSE, s |-> Log(s, <<"reload_not_found", name>>)]
    ELSE
    LET s1 == Log(s, <<"reloading", name>>)
        m == s1.man[name].c
    IN  IF m = "none" \/ ~Json(m) \/ PythonCode(m) \in {"none", "undecodable"}
        THEN \* open, json.load or b64decode raises
             [ok |-> FALSE, s |-> Log(s1, <<"reload_error", name>>)]
        ELSE IF ~f.wr_ok
        THEN [ok |-> FALSE, s |-> Log(Io(s1, "wr_failed"), <<"reload_error", name>>)]
        ELSE
        LET s2 == Log(write_py(s1, name, m),
                      <<"py_rewritten", name>>)
            r == perform_dynamic_import_and_register(s2, name, m)
        IN  IF r.ok
            THEN [ok |-> TRUE,
                  s |-> notify_reloaded(save_plugin_config(Log(r.s, <<"reloaded", name>>), f))]
            ELSE
            LET s4 == drop_failed_reload(Log(r.s, <<"reload_failed", name>>), name, f)
            IN  [ok |-> FALSE, s |-> notify_reloaded(s4)]

\* PluginManager.reload_all_plugins.
reload_all_plugins(s, listing, f) ==
    LET s1 == load_plugins_from_disk_and_config(Log(s, <<"full_reload", "">>), listing, f)
    IN  notify_reloaded(Log(s1, <<"all_reloaded", "">>))

\* PluginManager.__init__ in a new process: empty registry and log, no plugin module
\* in sys.modules, no slot connected yet; then InfoscavaMainWindow.__init__ connects
\* the slots, with no static tab.
construct(s, listing, f) ==
    LET s0 == [s EXCEPT !.lp = <<>>, !.hist = <<>>, !.mods = [n \in Names |-> 0],
                        !.tabs = {}, !.conn = FALSE]
        s1 == load_plugins_from_disk_and_config(load_history(s0), listing, f)
    IN  [s1 EXCEPT !.conn = TRUE]

(***************************************************************************)
(* The state machine.                                                      *)
(***************************************************************************)
\* The machine state a handler starts in: the variables, the slots connected, and
\* nothing emitted, invoked or written yet.
Machine ==
    [lp |-> loaded_plugins, man |-> manifests, art |-> artifacts, mods |-> sys_modules,
     cfg |-> config, hist |-> history_entries, cap |-> max_plugin_history_entries,
     hfile |-> history_file, tabs |-> static_plugin_tabs,
     conn |-> TRUE, ev |-> <<>>, at |-> <<>>, calls |-> <<>>, results |-> <<>>,
     shown |-> <<>>, io |-> {}, wrote |-> {}, made |-> {}, logged |-> {}]

\* What an operation leaves in last: op and its arguments, its return value, the
\* signals emitted, the entry points invoked, the mapping returned, the analysis tabs
\* shown, the I/O done, the artifacts written, the module objects created and the
\* history entries appended.
Outcome(s, op, name, arg, ret) ==
    [op |-> op, name |-> name, arg |-> arg, ret |-> ret,
     ev |-> s.ev, at |-> s.at, calls |-> s.calls, results |-> s.results,
     shown |-> s.shown, io |-> s.io, wrote |-> s.wrote, made |-> s.made,
     logged |-> s.logged]

NoArg == [m |-> "", src |-> "", reply |-> ""]

Fresh(cap, hfile) ==
    [lp |-> <<>>, man |-> [n \in Names |-> NoFile], art |-> [n \in Names |-> NoFile],
     mods |-> [n \in Names |-> 0], cfg |-> <<>>, hist |-> <<>>, cap |-> cap,
     hfile |-> hfile, tabs |-> {},
     conn |-> FALSE, ev |-> <<>>, at |-> <<>>, calls |-> <<>>, results |-> <<>>,
     shown |-> <<>>, io |-> {}, wrote |-> {}, made |-> {}, logged |-> {}]

Started(s, l) ==
    /\ loaded_plugins = s.lp
    /\ manifests = s.man
    /\ artifacts = s.art
    /\ sys_modules = s.mods
    /\ config = s.cfg
    /\ history_entries = s.hist
    /\ max_plugin_history_entries = s.cap
    /\ history_file = s.hfile
    /\ static_plugin_tabs = s.tabs
    /\ last = l

Becomes(s, l) ==
    /\ loaded_plugins' = s.lp
    /\ manifests' = s.man
    /\ artifacts' = s.art
    /\ sys_modules' = s.mods
    /\ config' = s.cfg
    /\ history_entries' = s.hist
    /\ max_plugin_history_entries' = s.cap
    /\ history_file' = s.hfile
    /\ static_plugin_tabs' = s.tabs
    /\ last' = l

\* First start on an empty plugin directory (os.makedirs creates it), with no
\* history file and a configured capacity.
Init ==
    \E cap \in 1..MaxCap :
        LET s == construct(Fresh(cap, [kind |-> "absent", data |-> <<>>]), <<>>, NoFault)
        IN  Started(s, Outcome(s, "startup", "", NoArg, TRUE))

\* ManagePluginsDialog._load_new_plugin_from_dialog.
\* src: the file is missing, is any file outside the plugin directory, or is the
\* manifest in the plugin directory itself (where the file dialog opens).  The
\* overwrite question is asked, and answered, only when the manifest exists.
LoadNew(Files, F) ==
    \E file \in Files, src \in {"missing", "file", "same"},
       reply \in {"Yes", "No", ""}, f \in F :
        LET name == file[1]
            m == file[2]
            r == load_new_plugin_file(Machine, name, m, src, reply, f)
        IN  /\ src = "same" => manifests[name].c = m
            /\ src = "missing" => m = "an1"
            /\ reply = "" <=> (src = "missing" \/ manifests[name].c = "none")
            /\ Becomes(r.s, Outcome(r.s, "load", name,
                                    [m |-> m, src |-> src, reply |-> reply], r.ok))

\* ManagePluginsDialog._delete_selected_plugin.
Delete(N, F) ==
    \E name \in N, f \in F :
        LET r == delete_plugin(Machine, name, f)
        IN  Becomes(r.s, Outcome(r.s, "delete", name, NoArg, r.ok))

\* ManagePluginsDialog._reload_selected_plugin.
Reload(N, F) ==
    \E name \in N, f \in F :
        LET r == reload_plugin(Machine, name, f)
        IN  Becomes(r.s, Outcome(r.s, "reload", name, NoArg, r.ok))

\* ManagePluginsDialog._reload_all_plugins.
ReloadAll(F) ==
    \E listing \in Listings(Machine), f \in F :
        LET s == reload_all_plugins(Machine, listing, f)
        IN  Becomes(s, Outcome(s, "reload_all", "", NoArg, TRUE))

\* InfoscavaMainWindow._on_analysis_finished: the analysis pass and its display.
RunAnalysis ==
    LET s == on_analysis_finished(Machine)
    IN  Becomes(s, Outcome(s, "run", "", NoArg, TRUE))

\* The process ends without closeEvent (it is killed) and the application starts again.
Restart(F) ==
    \E listing \in Listings(Machine), f \in F :
        LET s == construct(Machine, listing, f)
        IN  Becomes(s, Outcome(s, "startup", "", NoArg, TRUE))

\* The host operations, with every I/O step succeeding.
Next ==
    \/ LoadNew(SourceFiles, {NoFault})
    \/ Delete(Names, {NoFault})
    \/ Reload(Names, {NoFault})
    \/ ReloadAll({NoFault})
    \/ RunAnalysis
    \/ Restart({NoFault})

Spec == Init /\ [][Next]_vars

(***************************************************************************)
(* The environment of the plugin directory: the user edits a manifest in   *)
(* place, with an editor.  SpecEdit runs the host operations on plugin "a" *)
(* in that environment.                                                    *)
(***************************************************************************)
\* The manifests an editor leaves in the plugin directory: <<name, kind>>, with a
\* modification time later than that of the generated source (1) or not (0, a file
\* put back with its old time).
EditedFiles == {"a"} \X ManifestIds

\* The files offered to loadNewManifest in SpecEdit.
EditSourceFiles == {"a"} \X {"an1", "static", "imperr"}

EditManifest ==
    \E file \in EditedFiles :
        /\ manifests[file[1]].c # file[2]
        /\ \E t \in {0, 1} :
              manifests' = [manifests EXCEPT ![file[1]] = [c |-> file[2], t |-> t]]
        /\ last' = Outcome(Machine, "edit", file[1], NoArg, TRUE)
        /\ UNCHANGED <<loaded_plugins, artifacts, sys_modules, config, history_entries,
                       max_plugin_history_entries, history_file, static_plugin_tabs>>

NextEdit ==
    \/ LoadNew(EditSourceFiles, {NoFault})
    \/ Delete({"a"}, {NoFault})
    \/ Reload({"a"}, {NoFault})
    \/ ReloadAll({NoFault})
    \/ RunAnalysis
    \/ Restart({NoFault})
    \/ EditManifest

SpecEdit == Init /\ [][NextEdit]_vars

\* The same, with the file operations free to fail: the write of the generated
\* source raises (load, reload, scan), a removal raises (delete).  The write of the
\* config file succeeds.
WriteFaults == {f \in Faults : f.cfg_ok /\ ~f.cfg_cut /\ f.rm = "ok"}

RemoveFaults == {f \in Faults : f.cfg_ok /\ ~f.cfg_cut /\ f.wr_ok}

NextFault ==
    \/ LoadNew(EditSourceFiles, WriteFaults)
    \/ Delete({"a"}, RemoveFaults)
    \/ Reload({"a"}, WriteFaults)
    \/ ReloadAll(WriteFaults)
    \/ RunAnalysis
    \/ Restart(WriteFaults)
    \/ EditManifest

SpecFault == Init /\ [][NextFault]_vars

(***************************************************************************)
(* SpecConfig: the host operations on plugin "a", manifests edited in      *)
(* place, with the write of plugins_config.json free to fail.              *)
(***************************************************************************)
ConfigFaults == {f \in Faults : f.wr_ok /\ f.rm = "ok" /\ (f.cfg_cut => ~f.cfg_ok)}

\* The files offered to loadNewManifest in SpecConfig.
ConfigSourceFiles == {"a"} \X {"an1", "static"}

\* The user edits the manifest of an Active plugin into one whose source does not
\* import any more.
BreakManifest ==
    \E name \in {"a"} :
        /\ name \in Keys(loaded_plugins)
        /\ manifests[name].c \notin {"none", "imperr"}
        /\ manifests' = [manifests EXCEPT ![name] = [c |-> "imperr", t |-> 1]]
        /\ last' = Outcome(Machine, "edit", name, NoArg, TRUE)
        /\ UNCHANGED <<loaded_plugins, artifacts, sys_modules, config, history_entries,
                       max_plugin_history_entries, history_file, static_plugin_tabs>>

NextConfig ==
    \/ LoadNew(ConfigSourceFiles, ConfigFaults)
    \/ Delete({"a"}, ConfigFaults)
    \/ Reload({"a"}, ConfigFaults)
    \/ ReloadAll(ConfigFaults)
    \/ BreakManifest

SpecConfig == Init /\ [][NextConfig]_vars

(***************************************************************************)
(* SpecTwoRuns: two runs of the application side by side, on plugin        *)
(* directories that differ in nothing but the content of                  *)
(* plugins_config.json.  The variables are the first run; last.twin is the *)
(* second.  Every operation is applied to both with the same inputs.       *)
(***************************************************************************)
\* What plugins_config.json can be made to hold from outside.
ConfigContents == {<<>>, <<"a">>, <<"b">>, <<"a", "b">>, Truncated}

\* The machine state the next handler starts in, after a handler left s.
Rest(s) ==
    [s EXCEPT !.conn = TRUE, !.ev = <<>>, !.at = <<>>, !.calls = <<>>, !.results = <<>>,
              !.shown = <<>>, !.io = {}, !.wrote = {}, !.made = {}, !.logged = {}]

\* Both runs have done op: s1 is what the first is left in, s2 the second.
Both(op, s1, s2) ==
    Becomes(s1, [op |-> op, twin |-> Rest(s2), ev |-> s1.ev, twin_ev |-> s2.ev,
                 differed |-> config # last.twin.cfg])

InitTwoRuns ==
    \E cap \in 1..MaxCap :
        LET s == construct(Fresh(cap, [kind |-> "absent", data |-> <<>>]), <<>>, NoFault)
        IN  Started(s, [op |-> "startup", twin |-> Rest(s), ev |-> s.ev,
                        twin_ev |-> s.ev, differed |-> FALSE])

\* The config files of the two runs are given different contents from outside.
EditConfigs ==
    \E c1, c2 \in ConfigContents :
        /\ c1 # c2
        /\ config' = c1
        /\ last' = [last EXCEPT !.op = "edit_config", !.twin.cfg = c2]
        /\ UNCHANGED <<loaded_plugins, manifests, artifacts, sys_modules, history_entries,
                       max_plugin_history_entries, history_file, static_plugin_tabs>>

TwoLoadNew ==
    \E file \in ConfigSourceFiles, reply \in {"Yes", ""} :
        /\ reply = "" <=> manifests[file[1]].c = "none"
        /\ reply = "" <=> last.twin.man[file[1]].c = "none"
        /\ Both("load",
                load_new_plugin_file(Machine, file[1], file[2], "file", reply, NoFault).s,
                load_new_plugin_file(last.twin, file[1], file[2], "file", reply, NoFault).s)

TwoDelete ==
    \E name \in {"a"} :
        /\ name \in Keys(loaded_plugins) \/ name \in Keys(last.twin.lp)
        /\ Both("delete", delete_plugin(Machine, name, NoFault).s,
                          delete_plugin(last.twin, name, NoFault).s)

TwoReloadAll ==
    \E listing \in Listings(Machine) \cap Listings(last.twin) :
        Both("reload_all", reload_all_plugins(Machine, listing, NoFault),
                           reload_all_plugins(last.twin, listing, NoFault))

TwoRestart ==
    \E listing \in Listings(Machine) \cap Listings(last.twin) :
        Both("startup", construct(Machine, listing, NoFault),
                        construct(last.twin, listing, NoFault))

NextTwoRuns ==
    \/ EditConfigs
    \/ TwoLoadNew
    \/ TwoDelete
    \/ TwoReloadAll
    \/ TwoRestart

SpecTwoRuns == InitTwoRuns /\ [][NextTwoRuns]_vars

(***************************************************************************)
(* SpecRender: analysis plugins returning values of every shape are loaded *)
(* and the analysis pass displays their results.                           *)
(***************************************************************************)
\* The files offered to loadNewManifest in SpecRender: plugin "a" returns a value of
\* any shape, plugin "b" raises.
RenderFiles == ({"a"} \X (ReturnKinds \cup {"an1"})) \cup ({"b"} \X {"anraise"})

NextRender ==
    \/ LoadNew(RenderFiles, {NoFault})
    \/ RunAnalysis
    \/ Delete({"b"}, {NoFault})

SpecRender == Init /\ [][NextRender]_vars

(***************************************************************************)
(* SpecPass: the analysis pass one plugin at a time, with the operations   *)
(* of the plugin dialog running between two invocations (an entry point    *)
(* that runs the event loop lets the user's clicks through).  last holds   *)
(* the pass: the copy of the registry made at its start (snap), the part   *)
(* of it still to run (todo), the invocations and results so far, and      *)
(* whether the registry was changed while the pass was running.            *)
(***************************************************************************)
PassFiles == ({"a"} \X {"an1", "anraise"}) \cup ({"b"} \X {"an1", "static"})

NoPass == [op |-> "startup", running |-> FALSE, snap |-> <<>>, todo |-> <<>>,
           calls |-> <<>>, results |-> <<>>, changed |-> FALSE]

InitPass ==
    \E cap \in 1..MaxCap :
        LET s == construct(Fresh(cap, [kind |-> "absent", data |-> <<>>]), <<>>, NoFault)
        IN  Started(s, NoPass)

\* What a dialog operation leaves of the pass: a running pass keeps its copy.
Meanwhile(op) == [last EXCEPT !.op = op, !.changed = last.changed \/ last.running]

\* plugin_raw_results = execute_analysis_plugins(...): the copy is made.
PassStart ==
    /\ ~last.running
    /\ last' = [op |-> "pass_start", running |-> TRUE, snap |-> loaded_plugins,
                todo |-> loaded_plugins, calls |-> <<>>, results |-> <<>>,
                changed |-> FALSE]
    /\ UNCHANGED <<loaded_plugins, manifests, artifacts, sys_modules, config,
                   history_entries, max_plugin_history_entries, history_file,
                   static_plugin_tabs>>

PassStep ==
    /\ last.running /\ last.todo # <<>>
    /\ LET s == pass_step(Machine, last.todo)
       IN  Becomes(s, [last EXCEPT !.op = "pass_step", !.todo = Tail(last.todo),
                                   !.calls = last.calls \o s.calls,
                                   !.results = last.results \o s.results])

\* return plugin_results.
PassEnd ==
    /\ last.running /\ last.todo = <<>>
    /\ last' = [last EXCEPT !.op = "pass_end", !.running = FALSE]
    /\ UNCHANGED <<loaded_plugins, manifests, artifacts, sys_modules, config,
                   history_entries, max_plugin_history_entries, history_file,
                   static_plugin_tabs>>

PassLoadNew ==
    \E file \in PassFiles, reply \in {"Yes", ""} :
        LET r == load_new_plugin_file(Machine, file[1], file[2], "file", reply, NoFault)
        IN  /\ reply = "" <=> manifests[file[1]].c = "none"
            /\ Becomes(r.s, Meanwhile("load"))

PassDelete ==
    \E name \in Names :
        /\ name \in Keys(loaded_plugins)
        /\ Becomes(delete_plugin(Machine, name, NoFault).s, Meanwhile("delete"))

PassReload ==
    \E name \in Names :
        /\ name \in Keys(loaded_plugins)
        /\ Becomes(reload_plugin(Machine, name, NoFault).s, Meanwhile("reload"))

PassReloadAll ==
    \E listing \in Listings(Machine) :
        Becomes(reload_all_plugins(Machine, listing, NoFault), Meanwhile("reload_all"))

NextPass ==
    \/ PassStart
    \/ PassStep
    \/ PassEnd
    \/ PassLoadNew
    \/ PassDelete
    \/ PassReload
    \/ PassReloadAll

SpecPass == InitPass /\ [][NextPass]_vars

(***************************************************************************)
(* SpecAnalysis: the file analysis.  _load_file reads the bytes and starts *)
(* a FileAnalyzerThread; the thread computes the metadata and emits        *)
(* finished(results) from its own thread, which Qt queues to the GUI       *)
(* thread; the GUI thread runs _on_analysis_finished when it takes the     *)
(* event from its queue.  last holds the window's fields: current_filepath,*)
(* file_content_bytes (the file they were read from), analysis_thread, the *)
(* queued finished events, the number of analyses started and of plugin    *)
(* passes run, and what the last pass was run with.  The files analysed    *)
(* exist and can be read: run() does not raise.                            *)
(***************************************************************************)
DataFiles == {"f1", "f2"}

NoThread == [id |-> 0, file |-> "none", running |-> FALSE]

InitAnalysis ==
    \E cap \in 1..MaxCap :
        LET s == construct(Fresh(cap, [kind |-> "absent", data |-> <<>>]), <<>>, NoFault)
        IN  Started(s, [op |-> "startup", current_filepath |-> "none",
                        file_content_bytes |-> "none", analysis_thread |-> NoThread,
                        queue |-> <<>>, started |-> 0, passes |-> 0,
                        shown |-> [id |-> 0, meta |-> "none", path |-> "none",
                                   bytes |-> "none"]])

\* InfoscavaMainWindow._start_analysis_thread.  quit() ends an event loop, and run()
\* has none, so wait() returns when run() has ended, its finished(results) emitted
\* and queued; then the new thread is created and started.
start_analysis_thread(w, filepath) ==
    LET t == w.analysis_thread
        queue == IF t.running THEN Append(w.queue, [id |-> t.id, file |-> t.file])
                 ELSE w.queue
    IN  [w EXCEPT !.queue = queue,
                  !.analysis_thread = [id |-> w.started + 1, file |-> filepath,
                                       running |-> TRUE],
                  !.started = w.started + 1]

\* InfoscavaMainWindow._load_file for a file that passes its checks.
load_file(w, filepath) ==
    start_analysis_thread([w EXCEPT !.current_filepath = filepath,
                                    !.file_content_bytes = filepath], filepath)

\* The user opens a file (_browse_file, _on_file_tree_clicked, a drop).
LoadFile ==
    /\ last.started < MaxStarts
    /\ \E f \in DataFiles : last' = [load_file(last, f) EXCEPT !.op = "load_file"]
    /\ UNCHANGED <<loaded_plugins, manifests, artifacts, sys_modules, config,
                   history_entries, max_plugin_history_entries, history_file,
                   static_plugin_tabs>>

\* InfoscavaMainWindow._reanalyze_current_file_if_loaded, slot of reanalyze_requested,
\* and _on_file_changed: the current file is loaded again.
Reanalyze ==
    /\ last.started < MaxStarts
    /\ last.current_filepath # "none"
    /\ last' = [load_file(last, last.current_filepath) EXCEPT !.op = "reanalyze"]
    /\ UNCHANGED <<loaded_plugins, manifests, artifacts, sys_modules, config,
                   history_entries, max_plugin_history_entries, history_file,
                   static_plugin_tabs>>

\* FileAnalyzerThread.run comes to its end: finished.emit(results), from the worker
\* thread, is queued to the GUI thread.
ThreadFinished ==
    /\ last.analysis_thread.running
    /\ last' = [last EXCEPT !.op = "thread_finished",
                            !.analysis_thread.running = FALSE,
                            !.queue = Append(last.queue, [id |-> last.analysis_thread.id,
                                                          file |-> last.analysis_thread.file])]
    /\ UNCHANGED <<loaded_plugins, manifests, artifacts, sys_modules, config,
                   history_entries, max_plugin_history_entries, history_file,
                   static_plugin_tabs>>

\* The GUI thread takes a finished event from its queue: _on_analysis_finished(results)
\* shows the metadata of results and runs the plugins on self.current_filepath and
\* self.file_content_bytes.
DeliverFinished ==
    /\ last.queue # <<>>
    /\ LET r == Head(last.queue)
       IN  Becomes(on_analysis_finished(Machine),
                   [last EXCEPT !.op = "deliver", !.queue = Tail(last.queue),
                                !.passes = last.passes + 1,
                                !.shown = [id |-> r.id, meta |-> r.file,
                                           path |-> last.current_filepath,
                                           bytes |-> last.file_content_bytes]])

NextAnalysis ==
    \/ LoadFile
    \/ Reanalyze
    \/ ThreadFinished
    \/ DeliverFinished

SpecAnalysis == InitAnalysis /\ [][NextAnalysis]_vars

(***************************************************************************)
(* The history log on its own: SpecHistory runs append, setCapacity,       *)
(* persist and restore on an empty plugin directory, for any history file. *)
(***************************************************************************)
\* Messages appended by callers of _log.
HistMsgs == {<<"x", "">>, <<"y", "">>}

RECURSIVE SeqsUpTo(_, _)
SeqsUpTo(S, n) ==
    IF n = 0 THEN {<<>>}
    ELSE LET shorter == SeqsUpTo(S, n - 1)
         IN  shorter \cup {Append(q, x) : q \in shorter, x \in S}

\* What plugin_history.json can hold when the application starts.
HistoryFiles ==
    {[kind |-> "absent", data |-> <<>>], [kind |-> "malformed", data |-> <<>>]}
    \cup {[kind |-> "list", data |-> q] : q \in SeqsUpTo(HistMsgs, MaxFileLen)}

InitHistory ==
    \E cap \in 1..MaxHistCap, hfile \in HistoryFiles :
        LET s == construct(Fresh(cap, hfile), <<>>, NoFault)
        IN  Started(s, Outcome(s, "startup", "", NoArg, TRUE))

\* A caller appends a message: PluginManager._log.
AppendEntry ==
    \E msg \in HistMsgs :
        LET s == Log(Machine, msg)
        IN  Becomes(s, Outcome(s, "append", "", NoArg, TRUE))

\* InfoscavaMainWindow._update_ui_with_settings with a capacity the settings
\* dialog admits (a positive number).
SetCapacity ==
    \E n \in 1..MaxHistCap :
        LET s == update_settings(Machine, n)
        IN  Becomes(s, Outcome(s, "set_capacity", "", NoArg, TRUE))

\* InfoscavaMainWindow.closeEvent (persist), then the next start (restore).
CloseAndStart ==
    \E listing \in Listings(Machine) :
        LET s == construct(save_history(Machine), listing, NoFault)
        IN  Becomes(s, Outcome(s, "startup", "", NoArg, TRUE))

\* The history file is replaced from outside while the application is closed,
\* and the application starts (restore).
ReplaceFileAndStart ==
    \E hfile \in HistoryFiles, listing \in Listings(Machine) :
        LET s == construct([Machine EXCEPT !.hfile = hfile], listing, NoFault)
        IN  Becomes(s, Outcome(s, "startup", "", NoArg, TRUE))

NextHistory == AppendEntry \/ SetCapacity \/ CloseAndStart \/ ReplaceFileAndStart

SpecHistory == InitHistory /\ [][NextHistory]_vars

(***************************************************************************)
(* SpecCapacity: update_settings called with any capacity n >= 0, between  *)
(* appends.  (The settings dialog and the settings file admit only n >= 1; *)
(* the method itself takes what it is given.)                              *)
(***************************************************************************)
\* PluginManager.update_settings(n) for any n >= 0.
SetAnyCapacity ==
    \E n \in 0..MaxHistCap :
        LET s == update_settings(Machine, n)
        IN  Becomes(s, Outcome(s, "set_capacity", "", NoArg, TRUE))

\* PluginManager._log, while the log is no longer than MaxLogLen.
AppendShort ==
    /\ Len(history_entries) <= MaxLogLen
    /\ AppendEntry

NextCapacity == AppendShort \/ SetAnyCapacity

SpecCapacity == InitHistory /\ [][NextCapacity]_vars

(***************************************************************************)
(* SpecRoundTrip: the history log across a shutdown.  closeEvent persists  *)
(* the log; the next start restores it (PluginManager.__init__ up to the   *)
(* return of _load_history) and then scans the empty plugin directory.     *)
(* last holds the log as it was when persist was called.                   *)
(***************************************************************************)
InitRoundTrip ==
    \E cap \in 1..MaxHistCap :
        LET s == construct(Fresh(cap, [kind |-> "absent", data |-> <<>>]), <<>>, NoFault)
        IN  Started(s, [op |-> "started", saved |-> <<>>])

\* A caller appends a message while the application runs.
RunningAppend ==
    /\ last.op \in {"started", "append", "set_capacity"}
    /\ \E msg \in HistMsgs :
          Becomes(Log(Machine, msg), [last EXCEPT !.op = "append"])

\* The settings dialog changes the capacity while the application runs.
RunningSetCapacity ==
    /\ last.op \in {"started", "append", "set_capacity"}
    /\ \E n \in 1..MaxHistCap :
          Becomes(update_settings(Machine, n), [last EXCEPT !.op = "set_capacity"])

\* InfoscavaMainWindow.closeEvent: persist, and the process ends.
Persist ==
    /\ last.op \in {"started", "append", "set_capacity"}
    /\ Becomes(save_history(Machine), [op |-> "persist", saved |-> history_entries])

\* PluginManager.__init__ of the next start, up to the return of _load_history: an
\* empty list, the capacity of the settings, then restore.
Restore ==
    /\ last.op = "persist"
    /\ Becomes(load_history([Machine EXCEPT !.hist = <<>>, !.conn = FALSE]),
               [last EXCEPT !.op = "restore"])

\* The rest of PluginManager.__init__: the scan of the plugin directory.
ScanAfterRestore ==
    /\ last.op = "restore"
    /\ Becomes(load_plugins_from_disk_and_config([Machine EXCEPT !.conn = FALSE],
                                                 <<>>, NoFault),
               [last EXCEPT !.op = "started"])

NextRoundTrip ==
    \/ RunningAppend
    \/ RunningSetCapacity
    \/ Persist
    \/ Restore
    \/ ScanAfterRestore

SpecRoundTrip == InitRoundTrip /\ [][NextRoundTrip]_vars

(***************************************************************************)
(* SpecAppend: appends alone, from the empty list of PluginManager.__init__ *)
(* and a fixed capacity.  last.all is every message appended so far.        *)
(***************************************************************************)
InitAppend ==
    \E cap \in 1..MaxHistCap :
        LET s == Fresh(cap, [kind |-> "absent", data |-> <<>>])
        IN  Started(s, [op |-> "new", all |-> <<>>])

AppendOnly ==
    \E msg \in HistMsgs :
        /\ Len(last.all) < MaxAppends
        /\ LET s == Log(Machine, msg)
           IN  Becomes(s, [op |-> "append", all |-> Append(last.all, msg)])

SpecAppend == InitAppend /\ [][AppendOnly]_vars

(***************************************************************************)
(* Properties.                                                             *)
(***************************************************************************)
Code(m) == PythonCode(m)

\* The manifest parses, has a payload that decodes and a function_name, and its
\* source imports and defines the entry point.
GoodManifest(m) ==
    /\ Json(m) /\ FunctionName(m)
    /\ Code(m) \notin {"none", "undecodable"}
    /\ Imports(Code(m)) /\ HasEntry(Code(m))

\* The manifest gets as far as the import and fails there or before it for one of
\* the three reasons: no function_name, the import raises, no callable entry point.
FailsAtImport(m) ==
    /\ Json(m) /\ Code(m) \notin {"none", "undecodable"}
    /\ (~FunctionName(m) \/ ~Imports(Code(m)) \/ ~HasEntry(Code(m)))

Count(q, x) == Cardinality({i \in 1..Len(q) : q[i] = x})

NamesOf(lp) == [i \in 1..Len(lp) |-> lp[i].name]

AnalysisRecords(lp) == SelectSeq(lp, LAMBDA r : r.type = "analysis_plugin")

\* C1 (as claimed): after a loadNewManifest that returns false because function_name
\* is missing, the import fails or the entry point is absent, the plugin name is not
\* in the Registry, whatever the Registry held before.
C1_FailedLoadNotInRegistry ==
    (/\ last.op = "load" /\ ~last.ret
     /\ last.arg.src = "file" /\ last.arg.reply # "No"
     /\ FailsAtImport(last.arg.m))
    => last.name \notin Keys(loaded_plugins)

\* C2 (as claimed): loadNewManifest of a manifest with a function_name, a payload that
\* decodes and a source that imports and defines the entry point returns true, and
\* the name is in listActivePlugins() when it returns.
C2_GoodManifestAlwaysLoads ==
    (last.op = "load" /\ last.arg.src # "missing" /\ GoodManifest(last.arg.m))
    => (last.ret /\ last.name \in Range(get_plugins_metadata(Machine)))

\* C2 (amended): the same, for a source file that is not the plugin directory's own
\* copy, when no manifest of that name is in the plugin directory or the user
\* confirms the overwrite (and every write succeeds).
C2_GoodManifestLoads ==
    (/\ last.op = "load" /\ last.arg.src = "file" /\ last.arg.reply # "No"
     /\ GoodManifest(last.arg.m))
    => (last.ret /\ last.name \in Range(get_plugins_metadata(Machine)))

\* A good manifest has been loaded over an existing one, the overwrite confirmed.
C2_Witness ==
    /\ last.op = "load" /\ last.arg.src = "file" /\ last.arg.reply = "Yes"
    /\ GoodManifest(last.arg.m) /\ last.ret

\* C3: the mapping runAnalysisPlugins returns has one key for each Active
\* analysis plugin, in Registry order: an error string for a plugin whose entry
\* point raises, the returned value for any other; and every one of them is invoked,
\* also those after a raising one.
C3_RunIsolation ==
    last.op = "run" =>
        LET an == AnalysisRecords(loaded_plugins) IN
        /\ Len(last.results) = Len(an)
        /\ {last.results[i][1] : i \in 1..Len(last.results)} =
               {r.name : r \in {x \in Range(loaded_plugins) : x.type = "analysis_plugin"}}
        /\ \A i \in 1..Len(an) :
              /\ last.results[i][1] = an[i].name
              /\ CallRaises(an[i].function) => last.results[i][2] = "error"
              /\ ~CallRaises(an[i].function) =>
                    /\ last.results[i][2] = "value"
                    /\ last.results[i][3] = CallValue(an[i].function)
        /\ last.calls = [i \in 1..Len(an) |-> <<"analysis", an[i].name>>]

\* A pass in which a raising plugin came before one that returned its value.
C3_Witness ==
    /\ last.op = "run"
    /\ \E i, j \in 1..Len(last.results) :
          i < j /\ last.results[i][2] = "error" /\ last.results[j][2] = "value"

\* C4 (as claimed): after reloadPlugin(A) succeeds, A comes after every other Active
\* plugin in the order of invocation, none of them having been loaded since.
C4_ReloadedRunsLast ==
    (last.op = "reload" /\ last.ret)
    => loaded_plugins[Len(loaded_plugins)].name = last.name

\* C4 (amended): runAnalysisPlugins invokes the Active analysis plugins in Registry
\* order; a loadNewManifest of a name that is not in the Registry puts it last, and a
\* successful reloadPlugin, like a loadNewManifest over an Active plugin, replaces
\* the record in place: the order of the names does not change.
C4_ReloadKeepsPosition ==
    [][/\ (/\ last'.op \in {"reload", "load"} /\ last'.ret
           /\ last'.name \in Keys(loaded_plugins))
          => NamesOf(loaded_plugins') = NamesOf(loaded_plugins)
       /\ (/\ last'.op = "load" /\ last'.ret
           /\ last'.name \notin Keys(loaded_plugins))
          => NamesOf(loaded_plugins') = Append(NamesOf(loaded_plugins), last'.name)
       /\ last'.op = "run"
          => last'.calls = [i \in 1..Len(AnalysisRecords(loaded_plugins')) |->
                               <<"analysis", AnalysisRecords(loaded_plugins')[i].name>>]
      ]_vars

\* The first of two Active plugins has just been reloaded, and is still the first.
C4_Witness ==
    /\ last.op = "reload" /\ last.ret
    /\ Len(loaded_plugins) = 2 /\ loaded_plugins[1].name = last.name

\* C5: when loadNewManifest, deletePlugin, reloadPlugin, reloadAll or the startup
\* scan returns, with success or failure, the persisted Config lists exactly the
\* names in the Registry (every config write succeeding).
C5_ConfigMirrorsRegistry ==
    /\ Range(config) = Keys(loaded_plugins)
    /\ Len(config) = Len(loaded_plugins)

\* A reloadPlugin has failed at the import and dropped the plugin: the Config was
\* rewritten without it.
C5_Witness ==
    /\ last.op = "reload" /\ ~last.ret
    /\ last.name \notin Keys(loaded_plugins)
    /\ "cfg_written" \in last.io

DeleteUnknownFrame ==
    /\ ~last'.ret
    /\ last'.ev = <<>>
    /\ UNCHANGED <<loaded_plugins, config, manifests, artifacts, sys_modules,
                   static_plugin_tabs, history_file>>

\* C7 (as claimed): deletePlugin on a name that is not in the Registry returns false
\* and changes nothing, the history log included, and emits no event.
C7_DeleteUnknownChangesNothing ==
    [][(last'.op = "delete" /\ last'.name \notin Keys(loaded_plugins))
       => (DeleteUnknownFrame /\ UNCHANGED history_entries)
      ]_vars

\* C7 (amended): it returns false, emits no event and leaves the Registry, the
\* Config, the files and the module cache as they were; the history log gets one
\* entry, "not found for deletion", appended by _log.
C7_DeleteUnknownOnlyLogs ==
    [][(last'.op = "delete" /\ last'.name \notin Keys(loaded_plugins))
       => /\ DeleteUnknownFrame
          /\ history_entries' =
                 log(history_entries, max_plugin_history_entries,
                     <<"delete_not_found", last'.name>>)
          /\ history_entries'[Len(history_entries')] = <<"delete_not_found", last'.name>>
      ]_vars

\* deletePlugin on an unknown name has returned false while another plugin is Active.
C7_Witness ==
    /\ last.op = "delete" /\ ~last.ret
    /\ last.name \notin Keys(loaded_plugins)
    /\ Len(loaded_plugins) > 0

\* C8: the history is never longer than the configured capacity, at the end of any
\* append, setCapacity or restore.
C8_HistoryBounded == Len(history_entries) <= max_plugin_history_entries

\* The application has started on a history file longer than the capacity.
C8_Witness ==
    /\ last.op = "startup"
    /\ history_file.kind = "list"
    /\ Len(history_file.data) > max_plugin_history_entries

\* C9: after k appends to an empty log of capacity N, the log is the last min(k, N)
\* appended messages, in the order of the appends.
C9_LastNInOrder ==
    LET k == Len(last.all)
        n == IF k < max_plugin_history_entries THEN k ELSE max_plugin_history_entries
    IN  /\ Len(history_entries) = n
        /\ \A i \in 1..n : history_entries[i] = last.all[k - n + i]

\* More messages have been appended than the log holds.
C9_Witness ==
    /\ last.op = "append"
    /\ Len(last.all) > max_plugin_history_entries + 1

\* C10 (as claimed): a static plugin's entry point is invoked exactly once by every
\* operation that loads it, and never by runAnalysisPlugins.
C10_StaticInvokedOncePerLoad ==
    /\ \A n \in Names :
          (n \in Keys(loaded_plugins) /\ Get(loaded_plugins, n).type = "static_html_plugin")
          => Count(last.calls, <<"static", n>>) = Count(last.ev, <<"Loaded", n>>)
    /\ last.op = "run" => \A i \in 1..Len(last.calls) : last.calls[i][1] # "static"

\* The payload of the manifest is there and decodes: the write of the generated
\* source is reached.
Decodes(m) == m # "none" /\ Json(m) /\ Code(m) \notin {"none", "undecodable"}

\* The operations that materialize plugins.
LoadOps == {"startup", "reload_all", "reload", "load"}

C13_ArtifactNotOlder ==
    last.op \in LoadOps =>
        \A n \in Names :
            <<"Loaded", n>> \in Range(last.ev)
            => /\ artifacts[n].c # "none"
               /\ manifests[n].c # "none" => artifacts[n].t >= manifests[n].t

\* A reloadAll has found a manifest newer than its artifact, rewritten the artifact
\* and loaded the plugin.
C13_Witness ==
    /\ last.op = "reload_all"
    /\ \E n \in Names : n \in last.wrote /\ <<"Loaded", n>> \in Range(last.ev)

\* What C20 says of reloadPlugin and loadNewManifest: every call that gets as far as
\* decoding the payload rewrites the artifact.
ForcedWrites ==
    /\ (/\ last'.op = "reload" /\ last'.name \in Keys(loaded_plugins)
        /\ Decodes(manifests[last'.name].c))
       => last'.name \in last'.wrote
    /\ (/\ last'.op = "load" /\ last'.arg.src = "file" /\ last'.arg.reply # "No"
        /\ Decodes(last'.arg.m))
       => last'.name \in last'.wrote

\* C20 (as claimed): the directory scan writes the artifact of a manifest if and only
\* if the artifact does not exist or the manifest is strictly newer; reloadPlugin and
\* loadNewManifest always rewrite it.
C20_ScanWritesIffStale ==
    [][/\ last'.op \in {"startup", "reload_all"}
          => \A n \in {x \in Names : manifests[x].c # "none"} :
                n \in last'.wrote
                <=> (artifacts[n].c = "none" \/ manifests[n].t > artifacts[n].t)
       /\ ForcedWrites
      ]_vars

\* C20 (amended): the same, for the manifests that parse and carry a payload that
\* decodes; the scan writes no artifact for any other manifest.
C20_ScanWritesDecodableIffStale ==
    [][/\ last'.op \in {"startup", "reload_all"}
          => \A n \in Names :
                n \in last'.wrote
                <=> (Decodes(manifests[n].c)
                     /\ (artifacts[n].c = "none" \/ manifests[n].t > artifacts[n].t))
       /\ ForcedWrites
      ]_vars

\* A scan has left alone the artifact of a manifest that is newer and does not parse.
C20_Witness ==
    /\ last.op \in {"startup", "reload_all"}
    /\ \E n \in Names :
          /\ manifests[n].c # "none" /\ ~Decodes(manifests[n].c)
          /\ manifests[n].t > artifacts[n].t
          /\ n \notin last.wrote

\* What the claim C12 says of each value: a mapping with the discriminator "html" and
\* a content field is HTML output or, the content not being a string, an error; any
\* other mapping and any ordered sequence is structured output; the rest is text.
ClaimedClass ==
    [v \in ReturnKinds \cup {"v1", "error_msg"} |->
        CASE v \in {"dict_html_str", "dict_html_blank"} -> "html"
          [] v = "dict_html_int" -> "html_error"
          [] v \in {"dict_html_nocontent", "dict_other", "list", "tuple"} -> "json"
          [] OTHER -> "text"]

\* What the display does with each value.
ShownClass ==
    [v \in ReturnKinds \cup {"v1", "error_msg"} |->
        CASE v = "dict_html_str" -> "html"
          [] v = "dict_html_blank" -> "html_empty"
          [] v \in {"dict_html_int", "dict_html_nocontent"} -> "html_error"
          [] v \in {"dict_other", "list"} -> "json"
          [] OTHER -> "text"]

\* The tab of an HTML result with blank content counts as HTML output.
HtmlClass(c) == IF c = "html_empty" THEN "html" ELSE c

\* C12 (as claimed): every result of the pass is shown, classified as the claim says.
C12_ClassifiedAsClaimed ==
    last.op = "run" =>
        /\ Len(last.shown) = Len(last.results)
        /\ \A i \in 1..Len(last.results) :
              /\ last.shown[i][1] = last.results[i][1]
              /\ HtmlClass(last.shown[i][2]) = ClaimedClass[last.results[i][3]]

\* C12 (amended): a dict whose infoscava_output_type is "html" is HTML output when
\* its content is a string (a notice is shown when the string is blank) and an
\* output-type-mismatch error, shown for that plugin only, when the content is
\* missing or not a string; any other dict and any list is structured output; every
\* other value, a tuple included, is text output.
C12_Classified ==
    last.op = "run" =>
        /\ Len(last.shown) = Len(last.results)
        /\ \A i \in 1..Len(last.results) :
              /\ last.shown[i][1] = last.results[i][1]
              /\ last.shown[i][2] = ShownClass[last.results[i][3]]

\* A pass has shown the mismatch error of one plugin and the result of another.
C12_Witness ==
    /\ last.op = "run"
    /\ \E i, j \in 1..Len(last.shown) :
          /\ last.shown[i][2] = "html_error"
          /\ last.results[i][3] = "dict_html_nocontent"
          /\ i # j /\ last.shown[j][2] = "text"

\* The history entries that describe a failure.
FailureEntries ==
    {"scan_json_error", "scan_missing_code", "scan_write_error", "scan_load_failed",
     "skip_missing_fn", "import_error", "entry_missing",
     "load_json_error", "load_missing_code", "load_unexpected_error", "load_failed",
     "reload_error", "reload_failed", "delete_error", "execute_error",
     "static_tab_error", "static_not_string", "html_not_string",
     "config_save_error", "history_save_error"}

\* An entry describing a failure of plugin n was appended during the operation.
FailureLogged(n) == \E e \in last.logged : e[1] \in FailureEntries /\ e[2] = n

\* C15 (as claimed): every failure recovered during an operation has an entry
\* describing it in the HistoryLog when the operation returns: an exception raised by
\* a plugin invocation, an HTML result whose content is not a string, a manifest that
\* fails to load.
C15_FailuresAreLogged ==
    /\ last.op = "run" =>
           \A i \in 1..Len(last.results) :
              (last.results[i][2] = "error" \/ last.shown[i][2] = "html_error")
              => FailureLogged(last.results[i][1])
    /\ (/\ last.op = "load" /\ ~last.ret
        /\ last.arg.src = "file" /\ last.arg.reply # "No")
       => FailureLogged(last.name)

\* The record _perform_dynamic_import_and_register builds from the manifest m.
BuiltFrom(rec, m) ==
    /\ rec.function = Code(m)
    /\ rec.type = PluginType(m)

\* C14 (as claimed): reloadPlugin ends either returning true, the record of the name
\* replaced by one built from the manifest as it is on disk, or returning false, the
\* name absent from the Registry; it never returns false with the record still there.
C14_ReloadReplacesOrRemoves ==
    last.op = "reload" =>
        \/ /\ last.ret
           /\ last.name \in Keys(loaded_plugins)
           /\ BuiltFrom(Get(loaded_plugins, last.name), manifests[last.name].c)
        \/ /\ ~last.ret
           /\ last.name \notin Keys(loaded_plugins)

\* The load attempts of the operation that has just ended: the names whose manifest
\* the operation set out to load.
Attempted ==
    CASE last.op = "load" ->
            IF last.arg.src = "file" /\ last.arg.reply # "No" THEN {last.name} ELSE {}
      [] last.op = "reload" ->
            IF <<"reloading", last.name>> \in last.logged THEN {last.name} ELSE {}
      [] last.op \in {"startup", "reload_all"} ->
            {n \in Names : manifests[n].c # "none"}
      [] OTHER -> {}

\* The names the operation that has just ended has registered.
Registered ==
    CASE last.op \in {"load", "reload"} -> IF last.ret THEN {last.name} ELSE {}
      [] OTHER -> Keys(loaded_plugins)

\* C17 (as claimed): every load attempt ends with exactly one of Loaded(name) and
\* Failed(name) emitted: Loaded if and only if the attempt registered the plugin.
C17_LoadedXorFailed ==
    \A n \in Attempted :
        /\ Count(last.ev, <<"Loaded", n>>) + Count(last.ev, <<"Failed", n>>) = 1
        /\ <<"Loaded", n>> \in Range(last.ev) <=> n \in Registered

\* C18: every loadNewManifest, deletePlugin and reloadPlugin that returns true, and
\* every reloadAll, has emitted ReanalyzeRequested when it returns; every reloadPlugin
\* that returns true and every reloadAll has also emitted Reloaded.
C18_ReanalyzeRequested ==
    /\ ((last.op \in {"load", "delete", "reload"} /\ last.ret) \/ last.op = "reload_all")
       => <<"ReanalyzeRequested", "">> \in Range(last.ev)
    /\ ((last.op = "reload" /\ last.ret) \/ last.op = "reload_all")
       => <<"Reloaded", "">> \in Range(last.ev)

\* A reloadPlugin has returned true.
C18_Witness ==
    /\ last.op = "reload" /\ last.ret
    /\ last.name \in Keys(loaded_plugins)

\* C19: a successful loadNewManifest delivers Loaded(name), Reloaded,
\* ReanalyzeRequested in this order, a successful deletePlugin Deleted(name),
\* ReanalyzeRequested; the name is in the Registry when Loaded is delivered and absent
\* from it when Deleted is delivered; the slots have run when the operation returns
\* (the tab of a static plugin exists after its load).
C19_EventOrder ==
    /\ (last.op = "load" /\ last.ret)
       => /\ last.ev = <<<<"Loaded", last.name>>, <<"Reloaded", "">>,
                         <<"ReanalyzeRequested", "">>>>
          /\ last.at[1]
          /\ last.arg.m = "static" => last.name \in static_plugin_tabs
    /\ (last.op = "delete" /\ last.ret)
       => /\ last.ev = <<<<"Deleted", last.name>>, <<"ReanalyzeRequested", "">>>>
          /\ ~last.at[1]

\* A static plugin has been loaded and its tab created by the slot of Loaded.
C19_Witness ==
    /\ last.op = "load" /\ last.ret /\ last.arg.m = "static"
    /\ <<"static", last.name>> \in Range(last.calls)
    /\ last.name \in static_plugin_tabs

\* C16: a pass that has ended has invoked, in the order of the copy made at its
\* start, every analysis plugin of that copy and no other, and holds one result for
\* each, that of the function the copy holds, whatever deletePlugin, reloadPlugin,
\* reloadAll or loadNewManifest did to the Registry while the pass was running.
C16_PassRunsItsSnapshot ==
    last.op = "pass_end" =>
        LET an == AnalysisRecords(last.snap) IN
        /\ last.calls = [i \in 1..Len(an) |-> <<"analysis", an[i].name>>]
        /\ Len(last.results) = Len(an)
        /\ \A i \in 1..Len(an) :
              /\ last.results[i][1] = an[i].name
              /\ last.results[i][2] = IF CallRaises(an[i].function) THEN "error" ELSE "value"
              /\ ~CallRaises(an[i].function) => last.results[i][3] = CallValue(an[i].function)

\* A pass has ended whose copy holds an analysis plugin that was deleted, and lacks
\* one that was loaded, while it was running.
C16_Witness ==
    /\ last.op = "pass_end" /\ last.changed
    /\ \E n \in Keys(AnalysisRecords(last.snap)) : n \notin Keys(loaded_plugins)
    /\ \E n \in Keys(AnalysisRecords(loaded_plugins)) : n \notin Keys(last.snap)

\* The last n entries of a log h, in order.
LastN(h, n) == [i \in 1..n |-> h[Len(h) - n + i]]

\* C21 (as claimed): setCapacity(n), for every n >= 0: a log longer than n becomes
\* its last n entries, in order, at once; a log no longer than n is unchanged; and
\* every later append leaves the log no longer than n.
C21_SetCapacityTrims ==
    [][/\ last'.op = "set_capacity"
          => /\ Len(history_entries) > max_plugin_history_entries'
                => history_entries' = LastN(history_entries, max_plugin_history_entries')
             /\ Len(history_entries) <= max_plugin_history_entries'
                => history_entries' = history_entries
       /\ last'.op = "append"
          => Len(history_entries') <= max_plugin_history_entries'
      ]_vars

\* C22 (as claimed): after restore the in-memory history equals, entry for entry, the
\* in-memory history at the moment persist was called.
C22_RoundTripExact ==
    last.op = "restore" => history_entries = last.saved

\* The log a restore leaves for a file holding the entries q: q followed by the entry
\* "Loaded plugin history from file.", the oldest entries evicted down to cap.
Restored(q, cap) ==
    LET all == Append(q, <<"history_loaded", "">>)
    IN  IF Len(all) > cap THEN LastN(all, cap) ELSE all

\* C22 (amended): the file persist writes holds the in-memory history at the moment
\* persist was called, whole and in order; after restore the in-memory history is
\* that list followed by one entry reporting the load, the oldest entries evicted
\* while it is longer than the capacity.
C22_RoundTripPlusEntry ==
    /\ last.op \in {"persist", "restore"}
       => history_file = [kind |-> "list", data |-> last.saved]
    /\ last.op = "restore"
       => history_entries = Restored(last.saved, max_plugin_history_entries)

\* A log that filled its capacity has been persisted and restored.
C22_Witness ==
    /\ last.op = "restore"
    /\ Len(last.saved) = max_plugin_history_entries
    /\ Len(last.saved) >= 2
    /\ history_entries[1] = last.saved[2]

\* What the operation that leads to the next state gives when the write of the
\* config file succeeds (every other I/O step succeeds in SpecConfig).
Unfaulted ==
    CASE last'.op = "load" ->
            load_new_plugin_file(Machine, last'.name, last'.arg.m, last'.arg.src,
                                 last'.arg.reply, NoFault)
      [] last'.op = "delete" -> delete_plugin(Machine, last'.name, NoFault)
      [] last'.op = "reload" -> reload_plugin(Machine, last'.name, NoFault)

\* The config write of a loadNewManifest, deletePlugin or reloadPlugin has failed.
ConfigWriteFailed ==
    last'.op \in {"load", "delete", "reload"} /\ "cfg_failed" \in last'.io

\* The Registry change is kept and the failure is logged.
KeptAndLogged ==
    /\ loaded_plugins' = Unfaulted.s.lp
    /\ loaded_plugins' # loaded_plugins
    /\ <<"config_save_error", "">> \in last'.logged

\* C23 (as claimed): when the config write fails during loadNewManifest, deletePlugin
\* or reloadPlugin, the Registry change is kept, the operation reports success, the
\* failure is appended to the history log and the Config keeps its content.
C23_ConfigFailureKeepsAll ==
    [][ConfigWriteFailed
       => /\ KeptAndLogged
          /\ last'.ret
          /\ config' = config
      ]_vars

\* C23 (amended): the Registry change is kept and the failure logged; the operation
\* returns what it returns when the write succeeds (true, but false for a
\* reloadPlugin whose re-import failed and dropped the plugin); the Config keeps its
\* content when the file could not be opened and is left cut short when the write
\* raised after the file was opened.
C23_ConfigFailureNotRolledBack ==
    [][ConfigWriteFailed
       => /\ KeptAndLogged
          /\ last'.ret = Unfaulted.ok
          /\ last'.ret = ~(last'.op = "reload" /\ last'.name \notin Keys(loaded_plugins'))
          /\ config' = IF "cfg_cut" \in last'.io THEN Truncated ELSE config
      ]_vars

\* A reloadPlugin has failed at the import and dropped the plugin, and the config
\* write that follows has failed: the Config still lists the plugin.
C23_Witness ==
    /\ last.op = "reload" /\ ~last.ret
    /\ "cfg_failed" \in last.io /\ "cfg_cut" \notin last.io
    /\ last.name \notin Keys(loaded_plugins)
    /\ last.name \in Range(config)

\* C24 (as claimed): with no external modification of the plugin directory, every
\* plugin in the Registry has its manifest and its generated artifact on disk, after
\* any sequence of host operations.
C24_RegistryBackedByFiles ==
    \A n \in Keys(loaded_plugins) :
        manifests[n].c # "none" /\ artifacts[n].c # "none"

\* The Active static_html_plugin entries of the Registry.
ActiveStatic ==
    {n \in Keys(loaded_plugins) : Get(loaded_plugins, n).type = "static_html_plugin"}

\* C25 (as claimed): the static plugin tabs the host shows are tabs of Active
\* static_html_plugin entries of the Registry: a plugin that leaves the Registry
\* (deletePlugin, a failed reloadPlugin, a reloadAll that does not load it again)
\* loses its static tab.
C25_TabsFollowRegistry == static_plugin_tabs \subseteq ActiveStatic

\* C26 (as claimed): a deletePlugin on a known name that returns false because a
\* removal raised has removed neither the manifest nor the artifact and left the
\* module cache entry and the Registry as they were.
C26_DeleteAllOrNothing ==
    [][(last'.op = "delete" /\ ~last'.ret /\ "rm_failed" \in last'.io)
       => /\ manifests' = manifests
          /\ artifacts' = artifacts
          /\ sys_modules' = sys_modules
          /\ loaded_plugins' = loaded_plugins
      ]_vars

\* C27 (as claimed): the result applied by a plugin pass is that of the analysis
\* started last, never a superseded one; the metadata shown with the pass is of the
\* file whose bytes are handed to the plugins; and each analysis started leads to
\* exactly one pass.
C27_NoSupersededResult ==
    /\ last.op = "deliver"
       => /\ last.shown.id = last.started
          /\ last.shown.meta = last.shown.bytes
          /\ last.shown.meta = last.shown.path
    /\ last.passes <= last.started
    /\ (~last.analysis_thread.running /\ last.queue = <<>>) => last.passes = last.started

\* C28 (as claimed): the module cache holds an entry for a plugin if and only if the
\* plugin is in the Registry, and the entry is the module object of the Registry
\* record, after any sequence of load, reload, reloadAll and delete.
C28_ModuleCacheMirrorsRegistry ==
    \A n \in Names :
        /\ sys_modules[n] # 0 <=> n \in Keys(loaded_plugins)
        /\ n \in Keys(loaded_plugins) => Get(loaded_plugins, n).module = sys_modules[n]

\* The manifest of n, as the scan that leads to the next state finds it, has a
\* payload, is materialized (the artifact is there and not older, or the payload
\* decodes and is written), names its entry point, and the artifact imports and
\* defines it.
LoadsInScan(n) ==
    LET m == manifests[n].c IN
    /\ m # "none" /\ Json(m) /\ Code(m) # "none"
    /\ (artifacts[n].c = "none" \/ manifests[n].t > artifacts[n].t)
       => Code(m) # "undecodable"
    /\ FunctionName(m)
    /\ Imports(artifacts'[n].c) /\ HasEntry(artifacts'[n].c)

\* C29: after the startup scan and after every reloadAll the Registry holds exactly
\* the manifests of the plugin directory that have a payload, materialize, import and
\* resolve their entry point, whatever it held before; no Deleted event is emitted.
C29_ScanRebuildsRegistry ==
    [][last'.op \in {"startup", "reload_all"}
       => /\ Keys(loaded_plugins') = {n \in Names : LoadsInScan(n)}
          /\ \A i \in 1..Len(last'.ev) : last'.ev[i][1] # "Deleted"
      ]_vars

\* A reloadAll has dropped a plugin that was Active (its static tab is still shown)
\* and whose manifest is still in the plugin directory.
C29_Witness ==
    /\ last.op = "reload_all"
    /\ \E n \in static_plugin_tabs :
          n \notin Keys(loaded_plugins) /\ manifests[n].c # "none"

====
